---- MODULE Spec2Model ----
(***************************************************************************)
(* Model of cluster_painter.py: build_cluster scales album covers by song  *)
(* count, places them around the largest one (adjacency candidates, spiral *)
(* search, fallback), tightens the placement toward the centroid and       *)
(* normalises the coordinates for the canvas.                              *)
(*                                                                         *)
(* An album is named by its position in the insertion order of the albums  *)
(* dict.  status says what the file system holds for it: "ok" (cover file  *)
(* exists and decodes), "nocover" (get_cover_path returns None) or         *)
(* "badimage" (Image.open raises).                                         *)
(***************************************************************************)
EXTENDS Integers, Sequences, FiniteSets, TLC

\* ---- bounds of the model ------------------------------------------------
MaxItems == 3
MaxWeight == 2
ScaleMaxCount == 3
ScaleMaxSide == 4

\* ---- constants of the program -------------------------------------------
MinSize == 50
MaxSize == 300
MaxPasses == 100
MaxSteps == 3
BBoxWindow == 2
RadiusFactor == 10
MinSpiralStep == 10
AngleStep == 10

VARIABLES
    albums,          \* the input dict, in insertion order: [count, status]
    scaled_covers,   \* list of [name, size, count], sorted by size descending
    images,          \* list of resized images: [name, size]
    placements,      \* list of [img, x, y, w, h]
    trail,           \* per image, the placement states it went through
    pc,              \* position in build_cluster
    pass_num,        \* tighten_placements: passes completed
    moved_any,       \* tighten_placements: some rect moved in this pass
    center,          \* tighten_placements: <<SX, SY>>, sums of doubled centres
    todo,            \* tighten_placements: rects of this pass still to visit
    step_num,        \* tighten_placements: nudge iteration of the current rect
    moved,           \* tighten_placements: this iteration moved the rect
    canvas,          \* <<canvas_width, canvas_height>> once composed
    normalized,      \* the normalised placements [img, x, y]
    sc_args,         \* scale_dimension called on its own: the arguments
    sc_res           \* scale_dimension called on its own: the results

vars == <<albums, scaled_covers, images, placements, trail, pc, pass_num,
          moved_any, center, todo, step_num, moved, canvas, normalized,
          sc_args, sc_res>>

tightenVars == <<pass_num, moved_any, center, todo, step_num, moved>>
outVars == <<canvas, normalized>>
scVars == <<sc_args, sc_res>>

\* ---- arithmetic helpers -------------------------------------------------
Max2(a, b) == IF a >= b THEN a ELSE b
Min2(a, b) == IF a <= b THEN a ELSE b
Sign(a) == IF a > 0 THEN 1 ELSE IF a < 0 THEN -1 ELSE 0
\* int(n / d) for d > 0: Python's int() truncates toward zero.
Trunc(n, d) == IF n >= 0 THEN n \div d ELSE -((-n) \div d)
SetMax(S) == CHOOSE m \in S : \A o \in S : o <= m
SetMin(S) == CHOOSE m \in S : \A o \in S : m <= o

RECURSIVE SeqSum(_)
SeqSum(s) == IF s = <<>> THEN 0 ELSE Head(s) + SeqSum(Tail(s))

\* ---- scale_dimension ----------------------------------------------------
\* normalized = (count - min_count) / (max_count - min_count) is a float in
\* [0, 1]; int() truncates min_size + normalized * (max_size - min_size).
\* For the arguments drawn here the float result equals the exact quotient.
\* Variant: the count normalised by max_count instead of the count range.
scale_dimension_by_max(count, min_count, max_count, min_size, max_size) ==
    IF max_count = min_count
    THEN (min_size + max_size) \div 2
    ELSE Trunc(min_size * max_count + (count - min_count) * (max_size - min_size),
               max_count)

scale_dimension(count, min_count, max_count, min_size, max_size) ==
    IF max_count = min_count
    THEN (min_size + max_size) \div 2
    ELSE Trunc(min_size * (max_count - min_count)
               + (count - min_count) * (max_size - min_size),
               max_count - min_count)

\* ---- scaled_covers: filter, scale, sort ----------------------------------
Counts == {albums[i].count : i \in 1..Len(albums)}
min_count == SetMin(Counts)
max_count == SetMax(Counts)
get_cover_path(name) == albums[name].status # "nocover"

CoverInfo(name) ==
    [name |-> name,
     size |-> scale_dimension(albums[name].count, min_count, max_count,
                              MinSize, MaxSize),
     count |-> albums[name].count]

RECURSIVE CollectCovers(_)
CollectCovers(n) ==
    IF n = 0 THEN <<>>
    ELSE IF get_cover_path(n)
         THEN Append(CollectCovers(n - 1), CoverInfo(n))
         ELSE CollectCovers(n - 1)

\* Variant: an element goes before the earlier elements of its size.
InsertDescBeforeTies(sorted, e) ==
    LET k == Cardinality({i \in 1..Len(sorted) : sorted[i].size > e.size})
    IN  SubSeq(sorted, 1, k) \o <<e>> \o SubSeq(sorted, k + 1, Len(sorted))

\* list.sort(key=size, reverse=True) is stable: equal sizes keep their order.
InsertDesc(sorted, e) ==
    LET k == Cardinality({i \in 1..Len(sorted) : sorted[i].size >= e.size})
    IN  SubSeq(sorted, 1, k) \o <<e>> \o SubSeq(sorted, k + 1, Len(sorted))

RECURSIVE SortDesc(_)
SortDesc(s) ==
    IF s = <<>> THEN <<>>
    ELSE InsertDesc(SortDesc(SubSeq(s, 1, Len(s) - 1)), s[Len(s)])

RECURSIVE LoadAll(_)
LoadAll(covers) ==
    IF covers = <<>> THEN <<>>
    ELSE LET c == Head(covers)
         IN  IF albums[c.name].status = "ok"
             THEN <<[name |-> c.name, size |-> c.size]>> \o LoadAll(Tail(covers))
             ELSE LoadAll(Tail(covers))

\* ---- geometry -----------------------------------------------------------
\* Variant: the four separations joined by "and" instead of "or".
rects_overlap_all(a, b) ==
    ~(a.x + a.w <= b.x /\ b.x + b.w <= a.x /\ a.y + a.h <= b.y /\ b.y + b.h <= a.y)

rects_overlap(a, b) ==
    ~(a.x + a.w <= b.x \/ b.x + b.w <= a.x \/ a.y + a.h <= b.y \/ b.y + b.h <= a.y)

Rect(x, y, w, h) == [x |-> x, y |-> y, w |-> w, h |-> h]

\* 4 * center_distance^2: the square root is monotone, and the squares are
\* exact multiples of 1/4 far below 2^53, so the order is the same.
center_distance(x, y, w, h) == (2 * x + w) * (2 * x + w) + (2 * y + h) * (2 * y + h)

candidates_around(px, py, pw, ph, iw, ih) ==
    { <<px + pw, py>>,
      <<px + pw, py + ph - ih>>,
      <<px + pw, py + ((ph - ih) \div 2)>>,
      <<px - iw, py>>,
      <<px - iw, py + ph - ih>>,
      <<px - iw, py + ((ph - ih) \div 2)>>,
      <<px, py + ph>>,
      <<px + ((pw - iw) \div 2), py + ph>>,
      <<px, py - ih>>,
      <<px + ((pw - iw) \div 2), py - ih>> }

BBox(pls) ==
    [min_x |-> SetMin({pls[i].x : i \in 1..Len(pls)}),
     min_y |-> SetMin({pls[i].y : i \in 1..Len(pls)}),
     max_x |-> SetMax({pls[i].x + pls[i].w : i \in 1..Len(pls)}),
     max_y |-> SetMax({pls[i].y + pls[i].h : i \in 1..Len(pls)})]

bbox_candidates(pls, iw, ih) ==
    LET b == BBox(pls)
    IN  UNION { { <<b.min_x - iw + t, b.min_y + t>>,
                  <<b.max_x + t, b.min_y + t>>,
                  <<b.min_x + t, b.max_y + t>>,
                  <<b.max_x + t, b.max_y - ih + t>> } : t \in (-BBoxWindow)..BBoxWindow }

\* The de-duplicated candidate list; its order does not matter, the scored
\* list is sorted by a key that is total on positions.
candidates(pls, iw, ih) ==
    UNION { candidates_around(pls[i].x, pls[i].y, pls[i].w, pls[i].h, iw, ih)
            : i \in 1..Len(pls) }
    \cup bbox_candidates(pls, iw, ih)

overlaps_any(pls, r) == \E i \in 1..Len(pls) : rects_overlap(r, pls[i])

touching(pls, cx, cy, iw, ih) ==
    \E i \in 1..Len(pls) :
        LET p == pls[i]
        IN  /\ (cx + iw = p.x \/ cx = p.x + p.w \/ cy + ih = p.y \/ cy = p.y + p.h)
            /\ (~(cx + iw <= p.x \/ p.x + p.w <= cx)
                \/ ~(cy + ih <= p.y \/ p.y + p.h <= cy))

\* Variant: the key starts with touching instead of not touching.
score_prefers_apart(pls, c, iw, ih) ==
    <<IF touching(pls, c[1], c[2], iw, ih) THEN 1 ELSE 0,
      center_distance(c[1], c[2], iw, ih), c[1], c[2]>>

\* scored: (not touching, dist, cx, cy) for the non-overlapping candidates
score(pls, c, iw, ih) ==
    <<IF touching(pls, c[1], c[2], iw, ih) THEN 0 ELSE 1,
      center_distance(c[1], c[2], iw, ih), c[1], c[2]>>

scored(pls, iw, ih) ==
    { score(pls, c, iw, ih) :
        c \in { d \in candidates(pls, iw, ih) :
                  ~overlaps_any(pls, Rect(d[1], d[2], iw, ih)) } }

\* Python's tuple order
TupleLess(a, b) ==
    \E k \in 1..4 : a[k] < b[k] /\ \A j \in 1..(k - 1) : a[j] = b[j]

\* Variant: the last element of the sorted list instead of the first.
best_last(S) == CHOOSE a \in S : \A b \in S : a = b \/ TupleLess(b, a)

\* scored.sort(); scored[0]
best(S) == CHOOSE a \in S : \A b \in S : a = b \/ TupleLess(a, b)

\* ---- spiral search ------------------------------------------------------
\* np.cos / np.sin of angle_deg * (3.14159265 / 180), rounded to units of
\* 1/10000 (the products with a radius must stay within 32 bits).
CosTable ==
    <<10000, 9848, 9397, 8660, 7660, 6428, 5000, 3420, 1736, 0, -1736, -3420,
      -5000, -6428, -7660, -8660, -9397, -9848, -10000, -9848, -9397, -8660,
      -7660, -6428, -5000, -3420, -1736, 0, 1736, 3420, 5000, 6428, 7660,
      8660, 9397, 9848>>
SinTable ==
    <<0, 1736, 3420, 5000, 6428, 7660, 8660, 9397, 9848, 10000, 9848, 9397,
      8660, 7660, 6428, 5000, 3420, 1736, 0, -1736, -3420, -5000, -6428,
      -7660, -8660, -9397, -9848, -10000, -9848, -9397, -8660, -7660, -6428,
      -5000, -3420, -1736>>

spiral_step(iw, ih) == Max2(MinSpiralStep, Min2(iw, ih) \div 2)
max_radius(pls, iw, ih) ==
    LET b == BBox(pls)
    IN  Max2(b.max_x - b.min_x, b.max_y - b.min_y) + Max2(iw, ih) * RadiusFactor

\* The radii the while loop visits: step, 2*step, ... below max_radius.
spiral_rounds(pls, iw, ih) ==
    (max_radius(pls, iw, ih) - 1) \div spiral_step(iw, ih)

\* The position tried at radius number k (r = k * step) and angle number a.
spiral_pos(pls, iw, ih, k, a) ==
    LET b == BBox(pls)
        r == k * spiral_step(iw, ih)
    IN  <<Trunc((b.min_x + b.max_x) * 10000 + 2 * r * CosTable[a + 1], 20000),
          Trunc((b.min_y + b.max_y) * 10000 + 2 * r * SinTable[a + 1], 20000)>>

\* The tries in the order of the loops; the first free one is taken.
spiral_free(pls, iw, ih) ==
    { n \in 0..(spiral_rounds(pls, iw, ih) * (360 \div AngleStep) - 1) :
        LET c == spiral_pos(pls, iw, ih, (n \div (360 \div AngleStep)) + 1,
                            n % (360 \div AngleStep))
        IN  ~overlaps_any(pls, Rect(c[1], c[2], iw, ih)) }

\* The stage that places the next image and the position it picks.
choose_position(pls, iw, ih) ==
    IF scored(pls, iw, ih) # {}
    THEN LET s == best(scored(pls, iw, ih))
         IN  [how |-> <<"CandidateSearch", "Placed">>, x |-> s[3], y |-> s[4]]
    ELSE IF spiral_free(pls, iw, ih) # {}
    THEN LET n == SetMin(spiral_free(pls, iw, ih))
             c == spiral_pos(pls, iw, ih, (n \div (360 \div AngleStep)) + 1,
                             n % (360 \div AngleStep))
         IN  [how |-> <<"CandidateSearch", "SpiralSearch", "Placed">>,
              x |-> c[1], y |-> c[2]]
    ELSE [how |-> <<"CandidateSearch", "SpiralSearch", "FallbackPlaced">>,
          x |-> BBox(pls).max_x + 1, y |-> BBox(pls).min_y]

new_placement(img, x, y) ==
    [img |-> img.name, x |-> x, y |-> y, w |-> img.size, h |-> img.size]


\* ---- tighten_placements -------------------------------------------------
\* Variant: the loop returns after the first other rect.
can_place_at_first_only(pls, idx, x, y) ==
    LET others == {j \in 1..Len(pls) : j # idx}
    IN  others = {} \/
        ~rects_overlap(Rect(x, y, pls[idx].w, pls[idx].h), pls[SetMin(others)])

can_place_at(pls, idx, x, y) ==
    \A j \in 1..Len(pls) :
        j = idx \/ ~rects_overlap(Rect(x, y, pls[idx].w, pls[idx].h), pls[j])

\* center_x = sum(centers_x) / len(centers_x) with centers p.x + p.w / 2.0:
\* kept as SX = sum(2 * p.x + p.w), so that center_x = SX / (2 * n).  The
\* sums are exact in floating point and the rounding of the quotient is far
\* smaller than 1 / (2 * n), so signs and orders are those of the exact values.
centroid(pls) ==
    <<SeqSum([i \in 1..Len(pls) |-> 2 * pls[i].x + pls[i].w]),
      SeqSum([i \in 1..Len(pls) |-> 2 * pls[i].y + pls[i].h])>>

\* d = (cx - center_x)^2 + (cy - center_y)^2, times (2 * n)^2
dist_to_center(pls, c, i) ==
    LET n == Len(pls)
        dx == n * (2 * pls[i].x + pls[i].w) - c[1]
        dy == n * (2 * pls[i].y + pls[i].h) - c[2]
    IN  dx * dx + dy * dy

\* dists.sort(reverse=True) on (d, i): farthest first, then the larger index
RECURSIVE outer_first(_, _, _)
outer_first(pls, c, S) ==
    IF S = {} THEN <<>>
    ELSE LET m == CHOOSE i \in S : \A j \in S :
                      \/ dist_to_center(pls, c, i) > dist_to_center(pls, c, j)
                      \/ /\ dist_to_center(pls, c, i) = dist_to_center(pls, c, j)
                         /\ i >= j
         IN  <<m>> \o outer_first(pls, c, S \ {m})

step_x(pls, c, i) == Sign(c[1] - Len(pls) * (2 * pls[i].x + pls[i].w))
step_y(pls, c, i) == Sign(c[2] - Len(pls) * (2 * pls[i].y + pls[i].h))

x_move_ok(pls, c, i) ==
    /\ step_x(pls, c, i) # 0
    /\ can_place_at(pls, i, pls[i].x + step_x(pls, c, i), pls[i].y)
y_move_ok(pls, c, i) ==
    /\ step_y(pls, c, i) # 0
    /\ can_place_at(pls, i, pls[i].x, pls[i].y + step_y(pls, c, i))

move_x(pls, i, nx) == [pls EXCEPT ![i].x = nx]
move_y(pls, i, ny) == [pls EXCEPT ![i].y = ny]

\* Variant: the passes go on as long as a rect moved, with no cap.
another_pass_uncapped(any_moved, passes) == any_moved

\* After a pass: another one follows iff a rect moved (line 306) and the
\* range(max_passes) of line 255 is not used up.
another_pass(any_moved, passes) == any_moved /\ passes < MaxPasses

\* ---- bounding box and normalisation -------------------------------------
canvas_size(pls) ==
    <<BBox(pls).max_x - BBox(pls).min_x, BBox(pls).max_y - BBox(pls).min_y>>

\* Variant: min_x subtracted from both coordinates.
normalize_same_min(pls) ==
    [i \in 1..Len(pls) |->
        [img |-> pls[i].img,
         x |-> pls[i].x - BBox(pls).min_x,
         y |-> pls[i].y - BBox(pls).min_x]]

normalize(pls) ==
    [i \in 1..Len(pls) |->
        [img |-> pls[i].img,
         x |-> pls[i].x - BBox(pls).min_x,
         y |-> pls[i].y - BBox(pls).min_y]]

\* ---- initial states -----------------------------------------------------
Status == {"ok", "nocover", "badimage"}
Album == [count : 1..MaxWeight, status : Status]
Inputs == UNION { [1..n -> Album] : n \in 0..MaxItems }

Idle ==
    /\ scaled_covers = <<>>
    /\ images = <<>>
    /\ placements = <<>>
    /\ trail = <<>>
    /\ pass_num = 0
    /\ moved_any = FALSE
    /\ center = <<0, 0>>
    /\ todo = <<>>
    /\ step_num = 0
    /\ moved = FALSE
    /\ canvas = <<0, 0>>
    /\ normalized = <<>>

Init ==
    /\ albums \in Inputs
    /\ pc = "start"
    /\ Idle
    /\ sc_args = <<>>
    /\ sc_res = <<>>

\* ---- build_cluster ------------------------------------------------------
\* lines 70-98: the count range, the covers found, their sizes, the sort
ScaleCovers ==
    /\ pc = "start"
    /\ IF albums = <<>>
       THEN /\ pc' = "aborted"
            /\ UNCHANGED scaled_covers
       ELSE LET found == CollectCovers(Len(albums))
            IN  IF found = <<>>
                THEN /\ pc' = "aborted"
                     /\ UNCHANGED scaled_covers
                ELSE /\ scaled_covers' = SortDesc(found)
                     /\ pc' = "load"
    /\ UNCHANGED <<albums, images, placements, trail, tightenVars, outVars, scVars>>

\* lines 100-113: open and resize every cover, skipping the ones that fail
LoadImages ==
    /\ pc = "load"
    /\ LET loaded == LoadAll(scaled_covers)
       IN  IF loaded = <<>>
           THEN /\ pc' = "aborted"
                /\ UNCHANGED <<images, trail>>
           ELSE /\ images' = loaded
                /\ trail' = [i \in 1..Len(loaded) |-> <<"Unplaced">>]
                /\ pc' = "first"
    /\ UNCHANGED <<albums, scaled_covers, placements, tightenVars, outVars, scVars>>

\* Variant: the placement loop stops one image short.
after_placing_short(n) == IF n + 1 < Len(images) THEN "place" ELSE "pass"

\* Where build_cluster goes once an image is placed: the next iteration of
\* the placement loop, or tighten_placements when every image is placed.
after_placing(n) == IF n < Len(images) THEN "place" ELSE "pass"

\* lines 134-136: the largest image goes to the origin
PlaceFirst ==
    /\ pc = "first"
    /\ placements' = <<new_placement(images[1], 0, 0)>>
    /\ trail' = [trail EXCEPT ![1] = <<"Unplaced", "Placed">>]
    /\ pc' = after_placing(1)
    /\ UNCHANGED <<albums, scaled_covers, images, tightenVars, outVars, scVars>>

\* lines 160-240: one iteration of the placement loop
PlaceNext ==
    /\ pc = "place"
    /\ LET idx == Len(placements) + 1
           img == images[idx]
           pos == choose_position(placements, img.size, img.size)
       IN  /\ placements' = Append(placements, new_placement(img, pos.x, pos.y))
           /\ trail' = [trail EXCEPT ![idx] = <<"Unplaced">> \o pos.how]
           /\ pc' = after_placing(idx)
    /\ UNCHANGED <<albums, scaled_covers, images, tightenVars, outVars, scVars>>

\* lines 255-270: a pass starts: the centroid and the order of the rects
BeginPass ==
    /\ pc = "pass"
    /\ moved_any' = FALSE
    /\ center' = centroid(placements)
    /\ todo' = outer_first(placements, centroid(placements), 1..Len(placements))
    /\ step_num' = 0
    /\ moved' = FALSE
    /\ pc' = "nudge_x"
    /\ UNCHANGED <<albums, scaled_covers, images, placements, trail, pass_num,
                   outVars, scVars>>

\* lines 281-294: one nudge iteration, the move along x
NudgeX ==
    /\ pc = "nudge_x"
    /\ LET i == Head(todo)
       IN  IF x_move_ok(placements, center, i)
           THEN /\ placements' = move_x(placements, i,
                                        placements[i].x + step_x(placements, center, i))
                /\ moved' = TRUE
                /\ moved_any' = TRUE
           ELSE /\ moved' = FALSE
                /\ UNCHANGED <<placements, moved_any>>
    /\ pc' = "nudge_y"
    /\ UNCHANGED <<albums, scaled_covers, images, trail, pass_num, center, todo,
                   step_num, outVars, scVars>>

\* lines 296-304: the move along y, then the next iteration or the next rect
NudgeY ==
    /\ pc = "nudge_y"
    /\ LET i == Head(todo)
           ok == y_move_ok(placements, center, i)
           again == (moved \/ ok) /\ step_num + 1 < MaxSteps
       IN  /\ IF ok
              THEN /\ placements' = move_y(placements, i,
                                           placements[i].y + step_y(placements, center, i))
                   /\ moved_any' = TRUE
              ELSE UNCHANGED <<placements, moved_any>>
           /\ moved' = (moved \/ ok)
           /\ IF again
              THEN /\ step_num' = step_num + 1
                   /\ todo' = todo
                   /\ pc' = "nudge_x"
              ELSE /\ step_num' = 0
                   /\ todo' = Tail(todo)
                   /\ pc' = IF Tail(todo) = <<>> THEN "end_pass" ELSE "nudge_x"
    /\ UNCHANGED <<albums, scaled_covers, images, trail, pass_num, center,
                   outVars, scVars>>

\* lines 306-307 and the range(max_passes) of line 255
EndPass ==
    /\ pc = "end_pass"
    /\ pass_num' = pass_num + 1
    /\ pc' = IF another_pass(moved_any, pass_num + 1) THEN "pass" ELSE "compose"
    /\ UNCHANGED <<albums, scaled_covers, images, placements, trail, moved_any,
                   center, todo, step_num, moved, outVars, scVars>>

\* lines 311-321: the bounding box, the canvas size, the normalised positions
Compose ==
    /\ pc = "compose"
    /\ canvas' = canvas_size(placements)
    /\ normalized' = normalize(placements)
    /\ pc' = "done"
    /\ UNCHANGED <<albums, scaled_covers, images, placements, trail, tightenVars,
                   scVars>>

Next ==
    \/ ScaleCovers
    \/ LoadImages
    \/ PlaceFirst
    \/ PlaceNext
    \/ BeginPass
    \/ NudgeX
    \/ NudgeY
    \/ EndPass
    \/ Compose

Spec == Init /\ [][Next]_vars

\* build_cluster is one sequential function: it always takes its next step.
FairSpec == Spec /\ WF_vars(Next)


\* ---- scale_dimension on its own -----------------------------------------
\* The arguments of two calls that differ in the count only, lo <= hi, both
\* within [min_count, max_count], and sizes with min_size <= max_size.
ScaleSides == 1..ScaleMaxSide \cup {MinSize, MaxSize}
ScaleArgs ==
    { a \in [lo : 1..ScaleMaxCount, hi : 1..ScaleMaxCount,
             min_count : 1..ScaleMaxCount, max_count : 1..ScaleMaxCount,
             min_size : ScaleSides, max_size : ScaleSides] :
        /\ a.min_count <= a.lo
        /\ a.lo <= a.hi
        /\ a.hi <= a.max_count
        /\ a.min_size <= a.max_size }

ScaleInit ==
    /\ albums = <<>>
    /\ pc = "scale"
    /\ Idle
    /\ sc_args \in ScaleArgs
    /\ sc_res = <<>>

ScaleOf(a, count) ==
    scale_dimension(count, a.min_count, a.max_count, a.min_size, a.max_size)

ScaleCall ==
    /\ pc = "scale"
    /\ sc_res' = [lo |-> ScaleOf(sc_args, sc_args.lo),
                  hi |-> ScaleOf(sc_args, sc_args.hi),
                  at_min |-> ScaleOf(sc_args, sc_args.min_count),
                  at_max |-> ScaleOf(sc_args, sc_args.max_count)]
    /\ pc' = "scaled"
    /\ UNCHANGED <<albums, scaled_covers, images, placements, trail, tightenVars,
                   outVars, sc_args>>

ScaleNext == ScaleCall

ScaleSpec == ScaleInit /\ [][ScaleNext]_vars


\* ======================================================================
\* Properties
\* ======================================================================
\* Two rects overlap iff their half-open x-intervals intersect and their
\* half-open y-intervals intersect.
InteriorsOverlap(a, b) ==
    /\ a.x < b.x + b.w
    /\ b.x < a.x + a.w
    /\ a.y < b.y + b.h
    /\ b.y < a.y + a.h

\* A zero-gap edge on one axis and an overlap of positive length on the other.
EdgeTouching(a, b) ==
    \/ /\ (a.x + a.w = b.x \/ b.x + b.w = a.x)
       /\ a.y < b.y + b.h
       /\ b.y < a.y + a.h
    \/ /\ (a.y + a.h = b.y \/ b.y + b.h = a.y)
       /\ a.x < b.x + b.w
       /\ b.x < a.x + a.w

Last(s) == s[Len(s)]
InPlacer == pc = "place" \/ (pc = "pass" /\ pass_num = 0)
InTightener == pc \in {"pass", "nudge_x", "nudge_y", "end_pass"}
Loaded == {n \in 1..Len(albums) : albums[n].status = "ok"}
SizeOf(n) == scale_dimension(albums[n].count, min_count, max_count, MinSize, MaxSize)

\* C1: in every state of the layout no two distinct placed rects have
\* overlapping interiors (edge touching is allowed).
C1_NoOverlap ==
    \A i, j \in 1..Len(placements) :
        i # j => ~InteriorsOverlap(placements[i], placements[j])

\* C1 witness: a layout of three or more rects right after the Tightener
\* accepted an x nudge.
C1_Witness ==
    /\ pc = "nudge_y"
    /\ moved
    /\ Len(placements) >= 3

\* The first entry is the largest loaded item, the earliest on a tie.
FirstIsLargest ==
    LET f == placements[1].img
    IN  /\ f \in Loaded
        /\ placements[1].w = SizeOf(f)
        /\ \A n \in Loaded :
              \/ SizeOf(n) < SizeOf(f)
              \/ (SizeOf(n) = SizeOf(f) /\ f <= n)

FirstAtOrigin == placements[1].x = 0 /\ placements[1].y = 0

\* C2 as stated: in every layout, through the end of the Tightener, the first
\* entry is the largest loaded item (earliest on a tie) and sits at (0, 0).
C2_FirstLargestAtOriginAlways ==
    placements # <<>> => FirstIsLargest /\ FirstAtOrigin

\* C2 amended: in every layout the first entry is the largest loaded item
\* (earliest on a tie); it sits at (0, 0) in every state of the Placer, until
\* tighten_placements starts, and always when the layout has a single rect.
C2_FirstLargestAtOriginInPlacer ==
    placements # <<>> =>
        /\ FirstIsLargest
        /\ (InPlacer \/ Len(placements) = 1) => FirstAtOrigin

\* C2 witness: the Placer finished a layout whose first entry is not the
\* first album of the input and ties with the second entry.
C2_Witness ==
    /\ pc = "pass"
    /\ pass_num = 0
    /\ Len(placements) >= 2
    /\ placements[1].img # 1
    /\ placements[1].w = placements[2].w

\* A second run of tighten_placements starts from the centroid of the layout
\* as it is; it changes a position iff some rect has an accepted nudge.
SecondRunMoves ==
    \E i \in 1..Len(placements) :
        \/ x_move_ok(placements, centroid(placements), i)
        \/ y_move_ok(placements, centroid(placements), i)

\* C3: when tighten_placements has returned, a second run changes no
\* position: the first run ended at a fixed point.
C3_TightenIdempotent ==
    pc \in {"compose", "done"} => ~SecondRunMoves

\* For counts lo <= hi the result is non-decreasing, and every result is
\* within [min_size, max_size].
ScaleMonotoneInRange ==
    /\ sc_res.lo <= sc_res.hi
    /\ sc_args.min_size <= sc_res.lo
    /\ sc_res.hi <= sc_args.max_size
    /\ sc_args.min_size <= sc_res.at_min
    /\ sc_res.at_max <= sc_args.max_size

\* C4 as stated: for min_count <= max_count and min_size <= max_size the
\* result at min_count is min_size, the result at max_count is max_size,
\* and in between the result is non-decreasing and within the size range.
C4_EndpointsAlways ==
    pc = "scaled" =>
        /\ sc_res.at_min = sc_args.min_size
        /\ sc_res.at_max = sc_args.max_size
        /\ ScaleMonotoneInRange

\* C4 amended: when min_count < max_count the result at min_count is
\* min_size and the result at max_count is max_size; when min_count =
\* max_count the result is (min_size + max_size) // 2; in every case the
\* result is non-decreasing in the count and within [min_size, max_size].
C4_EndpointsWhenCountsDiffer ==
    pc = "scaled" =>
        /\ sc_args.min_count < sc_args.max_count =>
              /\ sc_res.at_min = sc_args.min_size
              /\ sc_res.at_max = sc_args.max_size
        /\ sc_args.min_count = sc_args.max_count =>
              /\ 2 * sc_res.lo <= sc_args.min_size + sc_args.max_size
              /\ sc_args.min_size + sc_args.max_size <= 2 * sc_res.lo + 1
              /\ sc_res.hi = sc_res.lo
              /\ sc_res.at_min = sc_res.lo
              /\ sc_res.at_max = sc_res.lo
        /\ ScaleMonotoneInRange

\* C4 witness: two different counts strictly ordered inside a proper count
\* range gave two different sizes.
C4_Witness ==
    /\ pc = "scaled"
    /\ sc_args.min_count < sc_args.max_count
    /\ sc_args.lo < sc_args.hi
    /\ sc_res.lo < sc_res.hi
    /\ sc_args.min_size < sc_res.lo

\* The layout holds one rect per image processed so far, in the order of the
\* images, each of the image's size; the images not yet processed are
\* Unplaced, the others ended in Placed or FallbackPlaced.
C5_OnePerImage ==
    /\ Len(placements) <= Len(images)
    /\ Len(trail) = Len(images)
    /\ \A i \in 1..Len(placements) :
          /\ placements[i].img = images[i].name
          /\ placements[i].w = images[i].size
          /\ placements[i].h = images[i].size
          /\ Last(trail[i]) \in {"Placed", "FallbackPlaced"}
    /\ \A i \in (Len(placements) + 1)..Len(images) : trail[i] = <<"Unplaced">>
    /\ \A i, j \in 1..Len(placements) :
          i # j => placements[i].img # placements[j].img
    /\ (InTightener \/ pc \in {"compose", "done"}) => Len(placements) = Len(images)

C5_Step ==
    /\ pc \in {"first", "place"} =>
          /\ Len(placements') = Len(placements) + 1
          /\ SubSeq(placements', 1, Len(placements)) = placements
    /\ pc \notin {"first", "place"} =>
          /\ Len(placements') = Len(placements)
          /\ \A i \in 1..Len(placements) :
                /\ placements'[i].img = placements[i].img
                /\ placements'[i].w = placements[i].w
                /\ placements'[i].h = placements[i].h
    /\ pc \notin {"first", "place", "nudge_x", "nudge_y"} => placements' = placements

\* C5: each iteration of the Placer appends exactly one rect and leaves the
\* earlier ones alone, so the layout has one rect per processed image and at
\* the end one per loaded image; the Tightener changes x and y only.
C5_AppendOnly == [](C5_OnePerImage) /\ [][C5_Step]_vars

\* C5 witness: a finished layout of several rects, with an album of the
\* input left out and a rect the Tightener has moved.
C5_Witness ==
    /\ pc = "done"
    /\ Len(placements) >= 2
    /\ Len(albums) > Len(images)
    /\ \E i \in 1..Len(placements) : placements[i].y # 0 /\ placements[i].x # 0

C6_Bounded ==
    /\ pass_num <= MaxPasses
    /\ step_num < MaxSteps
    /\ InTightener => pass_num < MaxPasses
    /\ (pc \in {"compose", "done"} /\ pass_num < MaxPasses) => ~moved_any
    /\ pc = "place" =>
          LET s == images[Len(placements) + 1].size
          IN  /\ spiral_step(s, s) >= MinSpiralStep
              /\ spiral_rounds(placements, s, s) >= 0
              /\ spiral_rounds(placements, s, s) * spiral_step(s, s)
                    < max_radius(placements, s, s)

C6_PassStep ==
    pc = "end_pass" =>
        /\ pc' \in {"compose", "pass"}
        /\ (pc' = "compose") <=> (~moved_any \/ pass_num' = MaxPasses)

Finished == pc \in {"done", "aborted"}

\* The steps one pass over n rects can take: its start, MaxSteps iterations
\* of two moves per rect, its end.
PassSteps(n) == 2 + 2 * MaxSteps * n

\* An upper bound on the steps still to come.
StepsLeft ==
    LET n == Len(images)
        later == (MaxPasses - pass_num - 1) * PassSteps(n) + 2
        nudges == (Len(todo) - 1) * 2 * MaxSteps + 2 * (MaxSteps - step_num)
    IN  CASE pc = "start" -> 4 + Len(albums) + MaxPasses * PassSteps(Len(albums))
          [] pc = "load" -> 3 + Len(albums) + MaxPasses * PassSteps(Len(albums))
          [] pc \in {"first", "place"} ->
                (n - Len(placements)) + MaxPasses * PassSteps(n) + 1
          [] pc = "pass" -> (MaxPasses - pass_num) * PassSteps(n) + 1
          [] pc = "nudge_x" -> later + nudges
          [] pc = "nudge_y" -> later + nudges - 1
          [] pc = "end_pass" -> later
          [] pc = "compose" -> 1
          [] OTHER -> 0

\* The bound is never used up before the end.
C6_Progress ==
    /\ StepsLeft >= 0
    /\ StepsLeft = 0 <=> Finished

\* C6: the layout computation finishes; the spiral visits finitely many radii
\* (step >= 10, below max_radius); the Tightener makes at most max_passes
\* passes of at most 3 nudge iterations per rect and stops earlier exactly
\* after the first pass in which no rect moved.
C6_Terminates ==
    /\ <>Finished
    /\ [](C6_Bounded /\ C6_Progress)
    /\ [][C6_PassStep /\ StepsLeft' < StepsLeft]_vars

\* The safety part of C6 on its own: a bound on the remaining steps that
\* every step lowers.
C6_StepBound ==
    [](C6_Bounded /\ C6_Progress) /\ [][C6_PassStep /\ StepsLeft' < StepsLeft]_vars

\* C6 witness: a run that ended before the pass cap, after passes that moved
\* rects.
C6_Witness ==
    /\ pc = "done"
    /\ pass_num > 1
    /\ pass_num < MaxPasses
    /\ Len(placements) >= 2

\* C7: the emitted positions are the layout's translated by (-minX, -minY):
\* the least emitted x and y are 0, offsets between rects are kept, the canvas
\* is the bounding box's width and height, every rect lies inside it, and a
\* single rect gives a canvas of its side length.
C7_Normalized ==
    pc = "done" =>
        LET n == Len(placements)
            minX == SetMin({placements[i].x : i \in 1..n})
            minY == SetMin({placements[i].y : i \in 1..n})
            maxX == SetMax({placements[i].x + placements[i].w : i \in 1..n})
            maxY == SetMax({placements[i].y + placements[i].h : i \in 1..n})
        IN  /\ Len(normalized) = n
            /\ \A i \in 1..n :
                  /\ normalized[i].img = placements[i].img
                  /\ normalized[i].x = placements[i].x - minX
                  /\ normalized[i].y = placements[i].y - minY
                  /\ normalized[i].x >= 0
                  /\ normalized[i].y >= 0
                  /\ normalized[i].x + placements[i].w <= canvas[1]
                  /\ normalized[i].y + placements[i].h <= canvas[2]
            /\ \E i \in 1..n : normalized[i].x = 0
            /\ \E i \in 1..n : normalized[i].y = 0
            /\ \A i, j \in 1..n :
                  /\ normalized[i].x - normalized[j].x = placements[i].x - placements[j].x
                  /\ normalized[i].y - normalized[j].y = placements[i].y - placements[j].y
            /\ canvas = <<maxX - minX, maxY - minY>>
            /\ n = 1 => canvas = <<placements[1].w, placements[1].w>>

\* C7 witness: a composed layout of several rects that had to be moved along
\* both axes, by different amounts.
C7_Witness ==
    /\ pc = "done"
    /\ Len(placements) >= 2
    /\ \E i, j \in 1..Len(placements) :
          /\ placements[i].x < 0
          /\ placements[j].y < 0
          /\ placements[i].x # placements[j].y

\* The candidates of the next image that overlap no placed rect.
FreeCandidates(pls, s) ==
    { c \in candidates(pls, s, s) :
        \A i \in 1..Len(pls) : ~InteriorsOverlap(Rect(c[1], c[2], s, s), pls[i]) }

TouchesLayout(pls, c, s) ==
    \E i \in 1..Len(pls) : EdgeTouching(Rect(c[1], c[2], s, s), pls[i])

\* Four times the squared distance from the rect's centre to the origin.
OriginDist(c, s) == (2 * c[1] + s) * (2 * c[1] + s) + (2 * c[2] + s) * (2 * c[2] + s)

RanksBetter(pls, c, d, s) ==
    \/ TouchesLayout(pls, c, s) /\ ~TouchesLayout(pls, d, s)
    \/ /\ TouchesLayout(pls, c, s) <=> TouchesLayout(pls, d, s)
       /\ OriginDist(c, s) < OriginDist(d, s)

C8_Step ==
    pc = "place" =>
        LET s == images[Len(placements) + 1].size
            new == Last(placements')
            free == FreeCandidates(placements, s)
        IN  /\ free # {} =>
                  /\ <<new.x, new.y>> \in free
                  /\ \A c \in free : ~RanksBetter(placements, c, <<new.x, new.y>>, s)
            /\ \A c \in free :
                  touching(placements, c[1], c[2], s, s) <=> TouchesLayout(placements, c, s)

\* C8: when some candidate overlaps no placed rect, the position appended is
\* such a candidate and no other one ranks strictly better (touching first,
\* then the smaller distance from the rect's centre to the origin); the
\* code counts a candidate as touching iff it shares a zero-gap edge with a
\* placed rect and overlaps it on the other axis.
C8_BestCandidate == [][C8_Step]_vars

\* C8 witness: the Placer has placed a third rect where the free candidates
\* held touching and non-touching positions.
C8_Witness ==
    /\ InPlacer
    /\ Len(placements) >= 3
    /\ LET before == SubSeq(placements, 1, Len(placements) - 1)
           s == Last(placements).w
       IN  /\ \E c \in FreeCandidates(before, s) : ~TouchesLayout(before, c, s)
           /\ Cardinality({c \in FreeCandidates(before, s) :
                              TouchesLayout(before, c, s)}) >= 2
           /\ \E c \in candidates(before, s, s) : c \notin FreeCandidates(before, s)

\* C9: the adjacency stage never fails: whenever an image is about to be
\* placed some candidate overlaps no placed rect, (max_x, min_y) for one, so
\* every image after the first goes Unplaced, CandidateSearch, Placed, and
\* SpiralSearch and FallbackPlaced are never entered.
C9_AdjacencyNeverFails ==
    /\ \A i \in 1..Len(trail) :
          trail[i] \in {<<"Unplaced">>, <<"Unplaced", "Placed">>,
                        <<"Unplaced", "CandidateSearch", "Placed">>}
    /\ pc = "place" =>
          LET s == images[Len(placements) + 1].size
              maxX == SetMax({placements[i].x + placements[i].w : i \in 1..Len(placements)})
              minY == SetMin({placements[i].y : i \in 1..Len(placements)})
          IN  /\ <<maxX, minY>> \in FreeCandidates(placements, s)
              /\ scored(placements, s, s) # {}

\* C9 witness: a finished run in which three or more images were placed, all
\* after the first by the adjacency stage.
C9_Witness ==
    /\ pc = "done"
    /\ Len(placements) >= 3
    /\ \A i \in 2..Len(placements) : trail[i] = <<"Unplaced", "CandidateSearch", "Placed">>

\* C10: before tightening every rect after the first touches an earlier rect
\* along an edge, and whenever an image is about to be placed the position
\* flush right of a rect with the greatest right edge is a free, touching
\* candidate.
C10_EdgeConnected ==
    /\ InPlacer =>
          \A k \in 2..Len(placements) :
              \E i \in 1..(k - 1) : EdgeTouching(placements[k], placements[i])
    /\ pc = "place" =>
          LET s == images[Len(placements) + 1].size
              maxX == SetMax({placements[i].x + placements[i].w : i \in 1..Len(placements)})
          IN  \E i \in 1..Len(placements) :
                  /\ placements[i].x + placements[i].w = maxX
                  /\ <<maxX, placements[i].y>> \in FreeCandidates(placements, s)
                  /\ TouchesLayout(placements, <<maxX, placements[i].y>>, s)

\* C10 witness: the Placer finished a layout whose third rect touches the
\* second rect and meets the first at a corner only.
C10_Witness ==
    /\ pc = "pass"
    /\ pass_num = 0
    /\ Len(placements) >= 3
    /\ EdgeTouching(placements[3], placements[2])
    /\ ~EdgeTouching(placements[3], placements[1])

====
